---- MODULE Spec2Model ----
(***************************************************************************)
(* Model of the C boundary of DynRS: src/c/util.rs (marshaling, handle     *)
(* allocation and release) and src/c/net.rs (HTTP client entry points).    *)
(*                                                                         *)
(* Memory is a partial function from addresses to blocks: an address in    *)
(* the domain of the heap is Live, one outside it is Released (or was      *)
(* never allocated).  Strings are sequences of bytes; a C string is a byte *)
(* sequence that holds a 0 terminator.  A process abort (a panic inside an *)
(* extern "C" function, a fault) is the flag crashed.                      *)
(***************************************************************************)
EXTENDS Integers, Sequences, FiniteSets, TLC

\* The C boundary: the heap of boxes handed out, the values dropped without
\* their destructor, the process abort flag, the call in progress.
VARIABLES heap, leaked, crashed, call
\* Caller threads and the shared runtime (net.rs RUNTIME).
VARIABLES runtime, threads
\* The scripting bridge (core/lua.rs): the Mutex<TimerState>, the Lua call
\* stack, the clock, and the record of what the script has observed.
VARIABLES timers, lua, now, trace

threadVars == <<runtime, threads>>
luaVars == <<timers, lua, now, trace>>
vars == <<heap, leaked, crashed, call, runtime, threads, timers, lua, now, trace>>

(***************************************************************************)
(* Bounds of the model.                                                    *)
(***************************************************************************)
\* Number of heap addresses the allocator can hand out.
MaxAddr == 3
\* Largest number of entries of a mapping or of a foreign array given to the
\* marshaling functions.
MaxEntries == 2
\* Width of usize/isize in bits (scaled down from 64).
PtrBits == 4

UsizeMax == 2^PtrBits - 1
IsizeMax == 2^(PtrBits - 1) - 1

\* The null pointer.
Null == 0
Addr == 1..MaxAddr

(***************************************************************************)
(* Option<T>                                                               *)
(***************************************************************************)
None == [some |-> FALSE]
Some(x) == [some |-> TRUE, val |-> x]

(***************************************************************************)
(* Memory the foreign caller owns: a table of NUL-terminated buffers, at   *)
(* the addresses above the heap.  97 = 'a', 98 = 'b', 255 is a byte that   *)
(* occurs in no UTF-8 text.                                                *)
(***************************************************************************)
CallerStr == << <<0>>, <<97, 0>>, <<98, 0>>, <<255, 0>> >>
CallerPtr(i) == MaxAddr + i
CallerPtrs == {CallerPtr(i) : i \in 1..Len(CallerStr)}

\* The bytes stored at address p (a heap block's payload or a caller buffer).
ReadMem(h, p) == IF p \in DOMAIN h THEN h[p].val.bytes ELSE CallerStr[p - MaxAddr]

\* libc::strlen: the number of bytes before the first 0.
strlen(h, p) ==
    LET b == ReadMem(h, p)
    IN  (CHOOSE i \in 1..Len(b) : b[i] = 0 /\ \A j \in 1..(i - 1) : b[j] # 0) - 1

\* CStr::to_str: the bytes are text iff they are valid UTF-8 (over the byte
\* alphabet of the model: every byte below 128 is, 255 never is).
to_str(bytes) ==
    IF \A i \in 1..Len(bytes) : bytes[i] < 128 THEN Some(bytes) ELSE None

cstr_to_rust(h, cstr) ==
    IF cstr = Null THEN None
    ELSE LET len == strlen(h, cstr)
         IN  IF len > IsizeMax THEN None
             ELSE to_str(SubSeq(ReadMem(h, cstr), 1, len))

\* Option::unwrap_or_default on Option<&str>: the empty text for None.
unwrap_or_default(o) == IF o.some THEN o.val ELSE <<>>

\* (mutant) the bytes are taken unchecked (CString::from_vec_unchecked).
CString_new_unchecked(s) == Some(s \o <<0>>)

\* CString::new: fails on an interior 0 byte, else appends the terminator.
CString_new(s) ==
    IF \E i \in 1..Len(s) : s[i] = 0 THEN None ELSE Some(s \o <<0>>)

(***************************************************************************)
(* The allocator.  Box::new returns an address that is not Live; the model *)
(* takes the least one (addresses are interchangeable tokens, and a        *)
(* released address is reused).                                            *)
(***************************************************************************)
FreeAddrs(h) == Addr \ DOMAIN h
NewAddr(h) == CHOOSE a \in FreeAddrs(h) : \A b \in FreeAddrs(h) : a <= b

\* A block: what it holds ("client", "response", "cstr") and its payload, a
\* record: [ca_path] of an HttpClient, [status, headers, body] of an
\* HttpResponse, [bytes] of a CString.
Block(kind, val) == [kind |-> kind, val |-> val]

\* The heap h with a new block at address a.
Store(h, a, blk) == [x \in DOMAIN h \cup {a} |-> IF x = a THEN blk ELSE h[x]]
\* The heap h without the block at address a (deallocation).
Dealloc(h, a) == [x \in DOMAIN h \ {a} |-> h[x]]

\* box_into_raw_new(value): the address of a new block that holds value.
box_into_raw_new(h, kind, value) ==
    LET a == NewAddr(h) IN [ptr |-> a, heap |-> Store(h, a, Block(kind, value))]

\* (mutant) text that CString::new refuses is encoded as the empty string
\* (unwrap_or_default).
rust_to_cstr_default(h, rstr) ==
    LET c == CString_new(rstr)
    IN  box_into_raw_new(h, "cstr", [bytes |-> IF c.some THEN c.val ELSE <<0>>])

\* rust_to_cstr(rstr): CString::into_raw, or null for text with a 0 in it.
rust_to_cstr(h, rstr) ==
    LET c == CString_new(rstr)
    IN  IF c.some THEN box_into_raw_new(h, "cstr", [bytes |-> c.val])
        ELSE [ptr |-> Null, heap |-> h]

(***************************************************************************)
(* A foreign array of pointers: null, or the elements it holds.            *)
(***************************************************************************)
NullArr == [null |-> TRUE, at |-> <<>>]
Arr(elems) == [null |-> FALSE, at |-> elems]

\* (mutant) the first value of a key is kept (entry().or_insert()).
Insert_keeps_first(map, k, v) ==
    [x \in DOMAIN map \cup {k} |-> IF x \in DOMAIN map THEN map[x] ELSE v]

\* HashMap::insert: a later insert of a key replaces the earlier value.
Insert(map, k, v) == [x \in DOMAIN map \cup {k} |-> IF x = k THEN v ELSE map[x]]
EmptyMap == [x \in {} |-> <<>>]

\* The loop of rust_map_from_c_arrays, from index i (0-based) up to len.
RECURSIVE from_c_arrays_loop(_, _, _, _, _, _)
from_c_arrays_loop(h, keys_slice, values_slice, i, len, map) ==
    IF i >= len THEN map
    ELSE LET key == cstr_to_rust(h, keys_slice[i + 1])
             value == cstr_to_rust(h, values_slice[i + 1])
         IN  from_c_arrays_loop(h, keys_slice, values_slice, i + 1, len,
                 IF key.some /\ value.some
                 THEN Insert(map, key.val, value.val) ELSE map)

\* slice::from_raw_parts(ptr, len) over an array that holds fewer than len
\* elements reads memory outside the array (undefined behaviour).
OutOfBounds(arr, len) == len > Len(arr.at)

\* rust_map_from_c_arrays(keys, values, len).  No check of len precedes the
\* reads: [ub |-> TRUE] is the out-of-bounds read.
rust_map_from_c_arrays(h, keys, values, len) ==
    IF keys.null \/ values.null THEN [ub |-> FALSE, map |-> None]
    ELSE IF OutOfBounds(keys, len) \/ OutOfBounds(values, len)
         THEN [ub |-> TRUE, map |-> None]
         ELSE [ub |-> FALSE,
               map |-> Some(from_c_arrays_loop(h, keys.at, values.at, 0, len, EmptyMap))]

\* cbytes_to_rust(data, len): data is null or the bytes of the buffer.
cbytes_to_rust(data, len) ==
    IF data.null THEN None
    ELSE IF len <= IsizeMax THEN Some(SubSeq(data.at, 1, len)) ELSE None

(***************************************************************************)
(* rust_map_to_c_arrays.  The caller's output locations hold OutInit       *)
(* before the call; count = -1 stands for a count nobody wrote.            *)
(***************************************************************************)
OutInit == [keys |-> <<>>, values |-> <<>>, count |-> -1]

\* The orders in which a HashMap may enumerate its entries.
RECURSIVE Orders(_)
Orders(S) ==
    IF S = {} THEN {<<>>}
    ELSE UNION {{<<k>> \o rest : rest \in Orders(S \ {k})} : k \in S}

\* The loop "for (k, v) in map": one key string and one value string are
\* allocated per entry, in enumeration order ord.
RECURSIVE to_c_arrays_loop(_, _, _, _, _, _)
to_c_arrays_loop(h, map, ord, i, keys_vec, values_vec) ==
    IF i > Len(ord) THEN [heap |-> h, keys |-> keys_vec, values |-> values_vec]
    ELSE LET k == rust_to_cstr(h, ord[i])
             v == rust_to_cstr(k.heap, map[ord[i]])
         IN  to_c_arrays_loop(v.heap, map, ord, i + 1,
                              Append(keys_vec, k.ptr), Append(values_vec, v.ptr))

\* rust_map_to_c_arrays(map, keys_out, values_out, count_out), where outs
\* says which of the three output pointers are null.  The two internal
\* pointer arrays are allocated and freed again inside the call.
rust_map_to_c_arrays(h, map, outs, ord) ==
    IF outs.keys_null \/ outs.values_null \/ outs.count_null
    THEN [heap |-> h, out |-> OutInit]
    ELSE LET len == Cardinality(DOMAIN map)
         IN  IF len = 0
             THEN [heap |-> h, out |-> [OutInit EXCEPT !.count = 0]]
             ELSE LET r == to_c_arrays_loop(h, map, ord, 1, <<>>, <<>>)
                  IN  [heap |-> r.heap,
                       out |-> [keys |-> r.keys, values |-> r.values, count |-> len]]

\* Number of blocks rust_map_to_c_arrays allocates for map (the strings that
\* CString::new accepts).
StringsOf(map) ==
    Cardinality({k \in DOMAIN map : CString_new(k).some})
    + Cardinality({k \in DOMAIN map : CString_new(map[k]).some})

(***************************************************************************)
(* The HTTP collaborator (crate::core::net): HttpClient and HttpResponse.  *)
(***************************************************************************)
\* The files of the platform that hold a trust root: "a" does, no other path.
ExistingFiles == {<<97>>}

\* HttpClient::new(ca_path): the results it may yield.  A path that names no
\* file always fails; any construction may fail (environment).
HttpClient_new(ca_path) ==
    IF ca_path.some /\ ca_path.val \notin ExistingFiles THEN {"Err"}
    ELSE {"Ok", "Err"}

\* The responses the collaborator may yield: status, ordered header multimap
\* (name, value bytes), optional body.  104 = 'h', 49 = '1'.
Responses ==
    { [status |-> 200, headers |-> <<>>, body |-> Some(<<112, 111, 110, 103>>)],
      [status |-> 404, headers |-> << <<(<<104>>), (<<49>>)>>, <<(<<104>>), (<<104>>)>> >>,
       body |-> None] }

NoResult == [tag |-> "none"]
Err == [tag |-> "Err"]
Ok(r) == [tag |-> "Ok", val |-> r]
\* What client.get/post/download/upload may yield.
Results == {Err} \cup {Ok(r) : r \in Responses}

(***************************************************************************)
(* The record of the last entry-point call: its name, its main pointer     *)
(* argument, its other inputs, the operation submitted to the collaborator *)
(* (NoSub: none), what the collaborator yielded, the value returned and    *)
(* the caller's output locations.                                          *)
(***************************************************************************)
NoSub == [sent |-> FALSE]
Call(op, arg, in, sub, result, ret, out) ==
    [op |-> op, arg |-> arg, in |-> in, sub |-> sub, result |-> result,
     ret |-> ret, out |-> out]
NoIn == [none |-> TRUE]

LiveOf(h, kind) == {a \in DOMAIN h : h[a].kind = kind}

\* The foreign thread calls one entry point at a time: it is between calls
\* (Idle) or inside one, until the call returns.
NoCall == Call("none", Null, NoIn, NoSub, NoResult, Null, OutInit)
Idle == ~crashed /\ call = NoCall

\* The process aborts inside the call: it never returns.
CrashWith(op, arg, in, result) ==
    /\ crashed' = TRUE
    /\ call' = Call(op, arg, in, NoSub, result, Null, OutInit)
    /\ UNCHANGED <<heap, leaked>>
Crash(op, arg, in) == CrashWith(op, arg, in, NoResult)

\* No caller thread is inside a call and the runtime is not constructed.
RuntimeInit == [state |-> "uninit", by |-> 0, built |-> 0]
NoThreads ==
    /\ runtime = RuntimeInit
    /\ threads = <<>>

\* LuaBridge::new: next_id is 1, no timer is active, the mutex is free; no
\* script runs.
TimerStateInit == [next_id |-> 1, active_timers |-> <<>>]
MutexInit == [locked |-> FALSE, data |-> TimerStateInit]
LuaInit == [stack |-> <<>>, hung |-> FALSE]
TraceInit == [issued |-> {}, cancelled |-> {}, invoked |-> <<>>]
NoScript ==
    /\ timers = MutexInit
    /\ lua = LuaInit
    /\ now = 0
    /\ trace = TraceInit

Init ==
    /\ NoThreads
    /\ NoScript
    /\ heap = [x \in {} |-> Block("none", [bytes |-> <<>>])]
    /\ leaked = {}
    /\ crashed = FALSE
    /\ call = NoCall

(***************************************************************************)
(* Client construction and release.                                        *)
(***************************************************************************)
\* ngenrs_http_client_init(ca_cert_path).  unwrap() and expect() panic, and
\* a panic in an extern "C" function aborts the process.
ngenrs_http_client_init ==
    /\ UNCHANGED <<threadVars, luaVars>>
    /\ Idle
    /\ \E ca_cert_path \in {Null} \cup CallerPtrs :
         LET path_str == cstr_to_rust(heap, ca_cert_path)
             ca_path == IF ca_cert_path # Null THEN path_str ELSE None
             in == [ca_cert_path |-> ca_cert_path]
         IN  IF ca_cert_path # Null /\ ~path_str.some
             THEN Crash("http_client_init", Null, in)
             ELSE \E r \in HttpClient_new(ca_path) :
                    IF r = "Err"
                    THEN CrashWith("http_client_init", Null, in, [tag |-> r])
                    ELSE /\ FreeAddrs(heap) # {}
                         /\ LET b == box_into_raw_new(heap, "client", [ca_path |-> ca_path])
                            IN  /\ heap' = b.heap
                                /\ call' = Call("http_client_init", Null, in, NoSub,
                                                [tag |-> r], b.ptr, OutInit)
                         /\ UNCHANGED <<leaked, crashed>>

\* (mutant) every block is dropped with the one released.
ngenrs_free_ptr_all(h, raw) == IF raw # Null THEN [x \in {} |-> h[x]] ELSE h

\* ngenrs_free_ptr::<T>(raw): a null raw is left alone, else Box<T> is
\* dropped and the block is deallocated.
ngenrs_free_ptr(h, raw) == IF raw # Null THEN Dealloc(h, raw) ELSE h

\* The values whose destructor ngenrs_free_ptr::<c_void> does not run: raw
\* has type *mut c_void, Box<c_void> has no drop glue, so the HttpClient or
\* HttpResponse stored in the block is forgotten with what it owns.
Forgotten(h, raw) == IF raw # Null THEN {h[raw].kind} ELSE {}

\* ngenrs_http_client_release(client): the only exported release that takes
\* an untyped handle; the caller passes null or a Live handle.
ngenrs_http_client_release ==
    /\ UNCHANGED <<threadVars, luaVars>>
    /\ Idle
    /\ \E client \in {Null} \cup LiveOf(heap, "client") \cup LiveOf(heap, "response") :
         /\ heap' = ngenrs_free_ptr(heap, client)
         /\ leaked' = leaked \cup Forgotten(heap, client)
         /\ call' = Call("http_client_release", client, NoIn, NoSub, NoResult, Null, OutInit)
    /\ UNCHANGED crashed

(***************************************************************************)
(* The request entry points.                                               *)
(***************************************************************************)
\* The arguments the caller passes.  CallerPtr(2) is "a", CallerPtr(3) is
\* "b", CallerPtr(4) is not UTF-8.
ClientArgs == {Null} \cup LiveOf(heap, "client")
NoMap == [keys |-> NullArr, values |-> NullArr, len |-> 0]
\* Two entries, the second with a key that is not text.
TwoMap ==
    [keys |-> Arr(<<CallerPtr(2), CallerPtr(4)>>),
     values |-> Arr(<<CallerPtr(3), CallerPtr(3)>>), len |-> 2]
\* A length above isize::MAX (the arrays hold one entry).
BigMap ==
    [keys |-> Arr(<<CallerPtr(2)>>), values |-> Arr(<<CallerPtr(3)>>),
     len |-> IsizeMax + 1]
GetIn ==
    { [url |-> CallerPtr(2), hdr |-> TwoMap, body |-> CallerPtr(3)],
      [url |-> Null, hdr |-> NoMap, body |-> Null],
      [url |-> CallerPtr(4), hdr |-> TwoMap, body |-> Null],
      [url |-> CallerPtr(2), hdr |-> BigMap, body |-> Null] }
PostIn ==
    { [url |-> CallerPtr(2), hdr |-> TwoMap, body |-> CallerPtr(3), json |-> TwoMap],
      [url |-> Null, hdr |-> NoMap, body |-> Null, json |-> NoMap],
      [url |-> CallerPtr(4), hdr |-> NoMap, body |-> CallerPtr(3), json |-> NoMap],
      [url |-> CallerPtr(2), hdr |-> NoMap, body |-> Null, json |-> BigMap] }
DownloadIn ==
    { [url |-> CallerPtr(2), hdr |-> TwoMap, output_path |-> CallerPtr(2)],
      [url |-> Null, hdr |-> NoMap, output_path |-> Null],
      [url |-> CallerPtr(4), hdr |-> NoMap, output_path |-> CallerPtr(2)] }

\* (mutant) a null pointer is decoded like an undecodable one: the empty text.
optional_text_empty(h, p) == Some(unwrap_or_default(cstr_to_rust(h, p)))

\* "if !p.is_null() { Some(cstr_to_rust(p).unwrap_or_default()) } else { None }"
optional_text(h, p) ==
    IF p # Null THEN Some(unwrap_or_default(cstr_to_rust(h, p))) ELSE None

\* (mutant) the error is boxed as well before null is returned.
match_result_boxes_error(h, result) ==
    IF result.tag = "Ok" THEN box_into_raw_new(h, "response", result.val)
    ELSE [ptr |-> Null, heap |-> box_into_raw_new(h, "response", result).heap]

\* (mutant) the response is stored in one static slot, and its address is
\* returned.
match_result_static(h, result) ==
    IF result.tag = "Ok"
    THEN [ptr |-> MaxAddr, heap |-> Store(h, MaxAddr, Block("response", result.val))]
    ELSE [ptr |-> Null, heap |-> h]

\* "match result { Ok(resp) => box_into_raw_new(resp), Err(_) => null_mut() }"
match_result(h, result) ==
    IF result.tag = "Ok" THEN box_into_raw_new(h, "response", result.val)
    ELSE [ptr |-> Null, heap |-> h]

\* RUNTIME.block_on(client.<op>(...)) and the match on its result: the
\* operation sub is submitted, the collaborator yields a result, and the call
\* returns the new response handle or null.
Submit(op, client, in, sub) ==
    /\ \E result \in Results :
         /\ result.tag = "Ok" => FreeAddrs(heap) # {}
         /\ LET m == match_result(heap, result)
            IN  /\ heap' = m.heap
                /\ call' = Call(op, client, in, sub, result, m.ptr, OutInit)
    /\ UNCHANGED <<leaked, crashed>>

\* "&*(client as *const HttpClient)" with a null client is a null reference:
\* the collaborator faults when it reads through it, or runs without
\* reading it.  An out-of-bounds read of the header arrays faults.
Run(op, client, in, ub, sub) ==
    IF ub THEN Crash(op, client, in)
    ELSE \/ client = Null /\ Crash(op, client, in)
         \/ Submit(op, client, in, sub)

ngenrs_http_get ==
    /\ UNCHANGED <<threadVars, luaVars>>
    /\ Idle
    /\ \E client \in ClientArgs, in \in GetIn :
         LET url == in.url
             hdr == in.hdr
             body == in.body
             headers == rust_map_from_c_arrays(heap, hdr.keys, hdr.values, hdr.len)
             sub == [sent |-> TRUE,
                     url |-> unwrap_or_default(cstr_to_rust(heap, url)),
                     headers |-> headers.map,
                     body |-> optional_text(heap, body)]
         IN  Run("http_get", client, in, headers.ub, sub)

ngenrs_http_post ==
    /\ UNCHANGED <<threadVars, luaVars>>
    /\ Idle
    /\ \E client \in ClientArgs, in \in PostIn :
         LET url == in.url
             hdr == in.hdr
             body == in.body
             json == in.json
             headers == rust_map_from_c_arrays(heap, hdr.keys, hdr.values, hdr.len)
             json_map == rust_map_from_c_arrays(heap, json.keys, json.values, json.len)
             sub == [sent |-> TRUE,
                     url |-> unwrap_or_default(cstr_to_rust(heap, url)),
                     headers |-> headers.map,
                     body |-> optional_text(heap, body),
                     json_map |-> json_map.map]
         IN  Run("http_post", client, in, headers.ub \/ json_map.ub, sub)

ngenrs_http_download ==
    /\ UNCHANGED <<threadVars, luaVars>>
    /\ Idle
    /\ \E client \in ClientArgs, in \in DownloadIn :
         LET url == in.url
             hdr == in.hdr
             output_path == in.output_path
             headers == rust_map_from_c_arrays(heap, hdr.keys, hdr.values, hdr.len)
             sub == [sent |-> TRUE,
                     url |-> unwrap_or_default(cstr_to_rust(heap, url)),
                     headers |-> headers.map,
                     output_path |-> unwrap_or_default(cstr_to_rust(heap, output_path))]
         IN  Run("http_download", client, in, headers.ub, sub)

\* The multipart arguments of upload: the five parallel arrays (all null or
\* all given), parts_len, and per part its name, payload buffer, payload
\* length, MIME type and file name.
Part(name, data, data_len, mime, filename) ==
    [name |-> name, data |-> data, data_len |-> data_len, mime |-> mime,
     filename |-> filename]
NoParts == [null |-> TRUE, len |-> 0, at |-> <<>>]
Parts(len, at) == [null |-> FALSE, len |-> len, at |-> at]
UploadIn ==
    { [url |-> CallerPtr(2), hdr |-> TwoMap,
       parts |-> Parts(1, <<Part(CallerPtr(2), <<1, 2>>, 2, Null, Null)>>)],
      [url |-> Null, hdr |-> NoMap, parts |-> NoParts],
      [url |-> CallerPtr(4), hdr |-> NoMap,
       parts |-> Parts(1, <<Part(Null, <<1>>, 1, CallerPtr(3), CallerPtr(4))>>)],
      [url |-> CallerPtr(2), hdr |-> NoMap, parts |-> Parts(0, <<>>)],
      [url |-> CallerPtr(2), hdr |-> NoMap,
       parts |-> Parts(1, <<Part(CallerPtr(2), <<1>>, IsizeMax + 1, Null, Null)>>)],
      [url |-> CallerPtr(2), hdr |-> NoMap, parts |-> Parts(IsizeMax + 1, <<>>)] }

\* The loop "for i in 0..parts_len" of ngenrs_http_upload.
RECURSIVE parts_loop(_, _, _, _)
parts_loop(h, at, i, parts) ==
    IF i > Len(at) THEN parts
    ELSE LET p == at[i]
         IN  parts_loop(h, at, i + 1,
                 Append(parts,
                     [name |-> unwrap_or_default(cstr_to_rust(h, p.name)),
                      data |-> SubSeq(p.data, 1, p.data_len),
                      mime |-> optional_text(h, p.mime),
                      filename |-> optional_text(h, p.filename)]))

\* The decoding of the parts.  No length is checked: slice::from_raw_parts
\* over null arrays ("null_slice") or with a length beyond the array or the
\* payload buffer ("oob") is undefined behaviour.
decode_parts(h, p) ==
    IF p.null
    THEN [ub |-> IF p.len = 0 THEN "null_slice" ELSE "oob", parts |-> <<>>]
    ELSE IF p.len > Len(p.at) \/ \E i \in 1..Len(p.at) : p.at[i].data_len > Len(p.at[i].data)
         THEN [ub |-> "oob", parts |-> <<>>]
         ELSE [ub |-> "no", parts |-> parts_loop(h, p.at, 1, <<>>)]

\* slice::from_raw_parts(null, 0) aborts where the build checks its
\* precondition and yields an empty slice elsewhere.
ngenrs_http_upload ==
    /\ UNCHANGED <<threadVars, luaVars>>
    /\ Idle
    /\ \E client \in ClientArgs, in \in UploadIn :
         LET url == in.url
             hdr == in.hdr
             parts == in.parts
             headers == rust_map_from_c_arrays(heap, hdr.keys, hdr.values, hdr.len)
             d == decode_parts(heap, parts)
             sub == [sent |-> TRUE,
                     url |-> unwrap_or_default(cstr_to_rust(heap, url)),
                     headers |-> headers.map,
                     parts |-> d.parts]
         IN  \/ ~headers.ub /\ d.ub = "null_slice" /\ Crash("http_upload", client, in)
             \/ Run("http_upload", client, in, headers.ub \/ d.ub = "oob", sub)

(***************************************************************************)
(* The response accessors.                                                 *)
(***************************************************************************)
RspArgs == {Null} \cup LiveOf(heap, "response")

\* ngenrs_http_parse_rsp_status(rsp_ptr)
rsp_status(h, rsp_ptr) == IF rsp_ptr = Null THEN -1 ELSE h[rsp_ptr].val.status

ngenrs_http_parse_rsp_status ==
    /\ UNCHANGED <<threadVars, luaVars>>
    /\ Idle
    /\ \E rsp_ptr \in RspArgs :
         call' = Call("http_parse_rsp_status", rsp_ptr, NoIn, NoSub, NoResult,
                      rsp_status(heap, rsp_ptr), OutInit)
    /\ UNCHANGED <<heap, leaked, crashed>>

\* "rsp.headers.iter().map(|(k, v)| (k, v.to_str().unwrap_or(""))).collect()":
\* the multimap is collected into a HashMap, entry after entry.
RECURSIVE collect_headers(_, _, _)
collect_headers(headers, i, map) ==
    IF i > Len(headers) THEN map
    ELSE collect_headers(headers, i + 1,
             Insert(map, headers[i][1], unwrap_or_default(to_str(headers[i][2]))))

\* The three output pointers the caller may pass.
OutPtrs ==
    { [keys_null |-> FALSE, values_null |-> FALSE, count_null |-> FALSE],
      [keys_null |-> TRUE, values_null |-> FALSE, count_null |-> FALSE],
      [keys_null |-> FALSE, values_null |-> FALSE, count_null |-> TRUE] }

\* ngenrs_http_parse_rsp_headers(rsp_ptr, keys, values, count)
rsp_headers(h, rsp_ptr, outs, ord) ==
    IF rsp_ptr = Null THEN [heap |-> h, out |-> OutInit]
    ELSE rust_map_to_c_arrays(h, collect_headers(h[rsp_ptr].val.headers, 1, EmptyMap),
                              outs, ord)

ngenrs_http_parse_rsp_headers ==
    /\ UNCHANGED <<threadVars, luaVars>>
    /\ Idle
    /\ \E rsp_ptr \in RspArgs, outs \in OutPtrs :
         LET headers_map ==
                 IF rsp_ptr = Null THEN EmptyMap
                 ELSE collect_headers(heap[rsp_ptr].val.headers, 1, EmptyMap)
         IN  /\ Cardinality(FreeAddrs(heap)) >= StringsOf(headers_map)
             /\ \E ord \in Orders(DOMAIN headers_map) :
                  LET r == rsp_headers(heap, rsp_ptr, outs, ord)
                  IN  /\ heap' = r.heap
                      /\ call' = Call("http_parse_rsp_headers", rsp_ptr, outs, NoSub,
                                      NoResult, Null, r.out)
    /\ UNCHANGED <<leaked, crashed>>

\* (mutant) the response is taken out of its box (Box::from_raw) to read
\* the body, and dropped.
rsp_body_consumes(h, rsp_ptr) ==
    IF rsp_ptr = Null THEN [ptr |-> Null, heap |-> h]
    ELSE IF h[rsp_ptr].val.body.some
         THEN rust_to_cstr(Dealloc(h, rsp_ptr), h[rsp_ptr].val.body.val)
         ELSE [ptr |-> Null, heap |-> Dealloc(h, rsp_ptr)]

\* ngenrs_http_parse_rsp_body(rsp_ptr)
rsp_body(h, rsp_ptr) ==
    IF rsp_ptr = Null THEN [ptr |-> Null, heap |-> h]
    ELSE IF h[rsp_ptr].val.body.some THEN rust_to_cstr(h, h[rsp_ptr].val.body.val)
         ELSE [ptr |-> Null, heap |-> h]

ngenrs_http_parse_rsp_body ==
    /\ UNCHANGED <<threadVars, luaVars>>
    /\ Idle
    /\ \E rsp_ptr \in RspArgs :
         /\ FreeAddrs(heap) # {}
         /\ LET r == rsp_body(heap, rsp_ptr)
            IN  /\ heap' = r.heap
                /\ call' = Call("http_parse_rsp_body", rsp_ptr, NoIn, NoSub, NoResult,
                                r.ptr, OutInit)
    /\ UNCHANGED <<leaked, crashed>>

(***************************************************************************)
(* The release primitives for loose marshaled data.                        *)
(***************************************************************************)
\* ngenrs_free_cstr(s): CString::from_raw(s) measures the string before any
\* null check, so a null s faults; a Live string is deallocated.
ngenrs_free_cstr ==
    /\ UNCHANGED <<threadVars, luaVars>>
    /\ Idle
    /\ \E s \in {Null} \cup LiveOf(heap, "cstr") :
         IF s = Null THEN Crash("free_cstr", s, NoIn)
         ELSE /\ heap' = Dealloc(heap, s)
              /\ call' = Call("free_cstr", s, NoIn, NoSub, NoResult, Null, OutInit)
              /\ UNCHANGED <<leaked, crashed>>

\* ngenrs_free_bytes(buf, len): no entry point modelled here hands a byte
\* buffer out, so the caller has only null to pass.
\* slice::from_raw_parts_mut(null, len) is undefined behaviour: the build
\* either aborts on its precondition check or yields a null slice pointer,
\* which ngenrs_free_ptr leaves alone.
ngenrs_free_bytes ==
    /\ UNCHANGED <<threadVars, luaVars>>
    /\ Idle
    /\ \E len \in {0, 1} :
         LET in == [len |-> len]
         IN  \/ Crash("free_bytes", Null, in)
             \/ /\ heap' = ngenrs_free_ptr(heap, Null)
                /\ call' = Call("free_bytes", Null, in, NoSub, NoResult, Null, OutInit)
                /\ UNCHANGED <<leaked, crashed>>

\* The call returns: the caller has its result, and may call again.
Return ==
    /\ UNCHANGED <<threadVars, luaVars>>
    /\ ~crashed
    /\ call # NoCall
    /\ call' = NoCall
    /\ UNCHANGED <<heap, leaked, crashed>>

Next ==
    \/ ngenrs_http_client_init
    \/ ngenrs_http_client_release
    \/ ngenrs_http_get
    \/ ngenrs_http_post
    \/ ngenrs_http_download
    \/ ngenrs_http_upload
    \/ ngenrs_http_parse_rsp_status
    \/ ngenrs_http_parse_rsp_headers
    \/ ngenrs_http_parse_rsp_body
    \/ ngenrs_free_cstr
    \/ ngenrs_free_bytes
    \/ Return

Spec == Init /\ [][Next]_vars

(***************************************************************************)
(* Properties of the boundary.                                             *)
(***************************************************************************)
Requests == {"http_get", "http_post", "http_download", "http_upload"}
ReleaseOps == {"http_client_release", "free_cstr", "free_bytes"}
Accessors == {"http_parse_rsp_status", "http_parse_rsp_headers", "http_parse_rsp_body"}

\* A request whose client handle is null, or whose url is null or not text.
BadRequest(c) ==
    /\ c.op \in Requests
    /\ c.arg = Null \/ ~cstr_to_rust(heap, c.in.url).some

\* C1: a request call with a null client handle, or with a url that is null or
\* not decodable as text, returns null without crashing, submits no operation
\* to the HTTP collaborator and allocates no response handle.
C1_BadRequestYieldsNull ==
    [][BadRequest(call') =>
          /\ ~crashed'
          /\ call'.ret = Null
          /\ ~call'.sub.sent
          /\ heap' = heap]_vars

\* C2: http_client_init returns a non-null Live client handle whenever the
\* collaborator's constructor succeeds, and returns null, with no handle
\* allocated and no crash, whenever the constructor fails.
C2_InitHandleOrNull ==
    call.op = "http_client_init" =>
        /\ call.result.tag = "Ok" =>
               /\ ~crashed
               /\ call.ret \in LiveOf(heap, "client")
        /\ call.result.tag = "Err" =>
               /\ ~crashed
               /\ call.ret = Null

\* C3: when the collaborator yields a failure the request returns null and the
\* heap is unchanged; when it yields a response the request returns the
\* address of one new block, not Live before the call, that holds that
\* response, and every other block is unchanged.
C3_RequestOutcome ==
    [][(call'.op \in Requests /\ call'.result.tag # "none") =>
          IF call'.result.tag = "Err"
          THEN call'.ret = Null /\ heap' = heap
          ELSE /\ call'.ret \in Addr \ DOMAIN heap
               /\ DOMAIN heap' = DOMAIN heap \cup {call'.ret}
               /\ heap'[call'.ret] = Block("response", call'.result.val)
               /\ \A a \in DOMAIN heap : heap'[a] = heap[a]]_vars

C3_Witness ==
    /\ call.op \in Requests
    /\ call.result.tag = "Ok"
    /\ call.ret \in LiveOf(heap, "response")
    /\ LiveOf(heap, "client") # {}
    /\ Cardinality(LiveOf(heap, "response")) = 2

\* C4: every entity handed to the caller can be released, so that once the
\* caller has released every handle and string it was given, nothing that was
\* allocated on its behalf is still allocated.
C4_EverythingReleasable ==
    (call = NoCall /\ DOMAIN heap = {}) => leaked = {}

\* C5: a release entry point called with a null pointer is a no-op: no fault,
\* nothing reclaimed, every handle and string unchanged.
C5_ReleaseNullIsNoOp ==
    [][(call'.op \in ReleaseOps /\ call'.arg = Null) =>
          /\ ~crashed'
          /\ heap' = heap
          /\ leaked' = leaked]_vars

\* C6: a Live block leaves the heap only in a call of its release entry point
\* on its own address, a block that stays keeps its content, and
\* http_client_release on a Live handle removes exactly that handle.
C6_OnlyReleaseEndsLive ==
    [][/\ \A a \in DOMAIN heap :
            IF a \in DOMAIN heap'
            THEN heap'[a] = heap[a]
            ELSE /\ call'.arg = a
                 /\ call'.op = IF heap[a].kind = "cstr" THEN "free_cstr"
                               ELSE "http_client_release"
       /\ (call'.op = "http_client_release" /\ call'.arg # Null) =>
              DOMAIN heap' = DOMAIN heap \ {call'.arg}]_vars

C6_Witness ==
    /\ call.op = "http_client_release"
    /\ call.arg # Null
    /\ call.arg \notin DOMAIN heap
    /\ LiveOf(heap, "response") # {}
    /\ LiveOf(heap, "cstr") # {}

\* The header mapping an accessor call is to report for response r: per
\* header name the value of its last entry, "" when that value is not text.
HeaderPairs(r) ==
    {<<r.headers[i][1], unwrap_or_default(to_str(r.headers[i][2]))>> :
        i \in {j \in 1..Len(r.headers) :
                  \A k \in (j + 1)..Len(r.headers) : r.headers[k][1] # r.headers[j][1]}}

\* The text of the string handed out at address p.
TextAt(h, p) == SubSeq(h[p].val.bytes, 1, Len(h[p].val.bytes) - 1)

\* The (key, value) pairs written to the caller's output arrays.
PairsWritten(h, out) ==
    {<<TextAt(h, out.keys[i]), TextAt(h, out.values[i])>> : i \in 1..Len(out.keys)}

\* C7: the accessors are pure readers.  With a null handle status is -1,
\* headers writes nothing and body is null.  With a Live handle every block
\* stays Live and unchanged, and the call returns the status, the header
\* mapping and the body text of the response, the same at every call.
C7_AccessorsPure ==
    [][call'.op \in Accessors =>
          /\ ~crashed'
          /\ \A a \in DOMAIN heap : a \in DOMAIN heap' /\ heap'[a] = heap[a]
          /\ IF call'.arg = Null
             THEN /\ heap' = heap
                  /\ call'.out = OutInit
                  /\ call'.ret = IF call'.op = "http_parse_rsp_status" THEN -1 ELSE Null
             ELSE LET r == heap[call'.arg].val
                  IN  /\ call'.op = "http_parse_rsp_status" => call'.ret = r.status
                      /\ call'.op = "http_parse_rsp_body" =>
                             IF r.body.some
                             THEN /\ call'.ret \in DOMAIN heap' \ DOMAIN heap
                                  /\ TextAt(heap', call'.ret) = r.body.val
                             ELSE call'.ret = Null
                      /\ (call'.op = "http_parse_rsp_headers"
                             /\ ~call'.in.keys_null /\ ~call'.in.count_null) =>
                             /\ call'.out.count = Cardinality(HeaderPairs(r))
                             /\ PairsWritten(heap', call'.out) = HeaderPairs(r)]_vars

C7_Witness ==
    /\ call.op = "http_parse_rsp_headers"
    /\ call.arg \in LiveOf(heap, "response")
    /\ call.out.count = 1
    /\ LiveOf(heap, "cstr") = {call.out.keys[1], call.out.values[1]}

(***************************************************************************)
(* The marshaling functions of util.rs applied to inputs drawn from        *)
(* bounded sets: the initial state holds the input, an action applies the  *)
(* function to it.                                                         *)
(***************************************************************************)
\* Rust texts (valid UTF-8, a 0 byte allowed): "a", "b", "a\0", "".
Texts == {<<97>>, <<98>>, <<97, 0>>, <<>>}
Maps ==
    {m \in UNION {[D -> Texts] : D \in {E \in SUBSET Texts : Cardinality(E) <= MaxEntries}} :
        StringsOf(m) <= MaxAddr}

\* Foreign arrays of string pointers: null, "a", "b" and bytes that are not
\* UTF-8.
PtrVals == {Null, CallerPtr(2), CallerPtr(3), CallerPtr(4)}
PtrArrays ==
    {NullArr} \cup {Arr(q) : q \in UNION {[1..n -> PtrVals] : n \in 0..MaxEntries}}

\* The caller passes a length within both arrays, or one above isize::MAX.
LensFor(k, v) ==
    {x \in 0..MaxEntries \cup {IsizeMax + 1} :
        \/ k.null \/ v.null
        \/ x <= Len(k.at) /\ x <= Len(v.at)
        \/ x > IsizeMax}
ArraysIn ==
    UNION {{[fn |-> "arrays", keys |-> k, values |-> v, len |-> n] : n \in LensFor(k, v)} :
              k \in PtrArrays, v \in PtrArrays}
MapsIn == {[fn |-> "map", map |-> m, outs |-> o] : m \in Maps, o \in OutPtrs}
BytesIn ==
    {[fn |-> "bytes", data |-> d, len |-> n] :
        d \in {NullArr, Arr(<<1, 2>>)}, n \in {0, 1, 2, IsizeMax + 1, UsizeMax}}

TextsIn == {[fn |-> "text", s |-> t] : t \in Texts \cup {<<98, 0, 97>>, <<0>>}}

InitMarshal ==
    /\ NoThreads
    /\ NoScript
    /\ heap = [x \in {} |-> Block("none", [bytes |-> <<>>])]
    /\ leaked = {}
    /\ crashed = FALSE
    /\ \E in \in ArraysIn \cup MapsIn \cup BytesIn \cup TextsIn :
         call = Call("input", Null, in, NoSub, NoResult, Null, OutInit)

Apply_rust_map_to_c_arrays ==
    /\ UNCHANGED <<threadVars, luaVars>>
    /\ ~crashed
    /\ call.op = "input"
    /\ call.in.fn = "map"
    /\ \E ord \in Orders(DOMAIN call.in.map) :
         LET r == rust_map_to_c_arrays(heap, call.in.map, call.in.outs, ord)
         IN  /\ heap' = r.heap
             /\ call' = Call("rust_map_to_c_arrays", Null, call.in, NoSub, NoResult,
                             Null, r.out)
    /\ UNCHANGED <<leaked, crashed>>

\* The arrays and the count that rust_map_to_c_arrays wrote are decoded by
\* rust_map_from_c_arrays.
Apply_round_trip ==
    /\ UNCHANGED <<threadVars, luaVars>>
    /\ ~crashed
    /\ call.op = "rust_map_to_c_arrays"
    /\ call.out.count >= 0
    /\ LET d == rust_map_from_c_arrays(heap, Arr(call.out.keys), Arr(call.out.values),
                                       call.out.count)
       IN  call' = Call("round_trip", Null, call.in, NoSub, Ok(d.map), Null, call.out)
    /\ UNCHANGED <<heap, leaked, crashed>>

\* An out-of-bounds read of the arrays faults.
Apply_rust_map_from_c_arrays ==
    /\ UNCHANGED <<threadVars, luaVars>>
    /\ ~crashed
    /\ call.op = "input"
    /\ call.in.fn = "arrays"
    /\ LET d == rust_map_from_c_arrays(heap, call.in.keys, call.in.values, call.in.len)
       IN  IF d.ub THEN Crash("rust_map_from_c_arrays", Null, call.in)
           ELSE /\ call' = Call("rust_map_from_c_arrays", Null, call.in, NoSub,
                                Ok(d.map), Null, OutInit)
                /\ UNCHANGED <<heap, leaked, crashed>>

Apply_cbytes_to_rust ==
    /\ UNCHANGED <<threadVars, luaVars>>
    /\ ~crashed
    /\ call.op = "input"
    /\ call.in.fn = "bytes"
    /\ call' = Call("cbytes_to_rust", Null, call.in, NoSub,
                    Ok(cbytes_to_rust(call.in.data, call.in.len)), Null, OutInit)
    /\ UNCHANGED <<heap, leaked, crashed>>

Apply_rust_to_cstr ==
    /\ UNCHANGED <<threadVars, luaVars>>
    /\ ~crashed
    /\ call.op = "input"
    /\ call.in.fn = "text"
    /\ LET r == rust_to_cstr(heap, call.in.s)
       IN  /\ heap' = r.heap
           /\ call' = Call("rust_to_cstr", Null, call.in, NoSub, NoResult, r.ptr, OutInit)
    /\ UNCHANGED <<leaked, crashed>>

\* The pointer rust_to_cstr returned is decoded by cstr_to_rust.
Apply_cstr_to_rust ==
    /\ UNCHANGED <<threadVars, luaVars>>
    /\ ~crashed
    /\ call.op = "rust_to_cstr"
    /\ call' = Call("cstr_to_rust", Null, call.in, NoSub,
                    Ok(cstr_to_rust(heap, call.ret)), call.ret, OutInit)
    /\ UNCHANGED <<heap, leaked, crashed>>

NextMarshal ==
    \/ Apply_rust_map_to_c_arrays
    \/ Apply_rust_to_cstr
    \/ Apply_cstr_to_rust
    \/ Apply_round_trip
    \/ Apply_rust_map_from_c_arrays
    \/ Apply_cbytes_to_rust

SpecMarshal == InitMarshal /\ [][NextMarshal]_vars

(***************************************************************************)
(* Properties of the marshaling functions.                                 *)
(***************************************************************************)
NoNul(s) == \A i \in 1..Len(s) : s[i] # 0

\* The entries of map m whose key and value are both representable.
Representable(m) ==
    [k \in {x \in DOMAIN m : NoNul(x) /\ NoNul(m[x])} |-> m[k]]

\* C8: a mapping encoded by rust_map_to_c_arrays and decoded again by
\* rust_map_from_c_arrays is the mapping restricted to the entries whose key
\* and value hold no 0 byte.
C8_RoundTrip ==
    call.op = "round_trip" => call.result = Ok(Some(Representable(call.in.map)))

C8_Witness ==
    /\ call.op = "round_trip"
    /\ Cardinality(DOMAIN call.in.map) = 2
    /\ Cardinality(DOMAIN call.result.val.val) = 1

\* The indices below len whose key and value both decode as text.
ValidIdx(in) ==
    {i \in 1..in.len : /\ cstr_to_rust(heap, in.keys.at[i]).some
                       /\ cstr_to_rust(heap, in.values.at[i]).some}
KeyAt(in, i) == cstr_to_rust(heap, in.keys.at[i]).val
ValueAt(in, i) == cstr_to_rust(heap, in.values.at[i]).val
PairsOf(m) == {<<k, m[k]>> : k \in DOMAIN m}

\* C9 as stated: null keys or values give "no mapping"; otherwise the mapping
\* holds exactly the pairs (keys[i], values[i]), i < len, whose key and value
\* both decode as text.
C9_ExactlyTheValidPairs ==
    (call.op = "rust_map_from_c_arrays" /\ ~crashed) =>
        IF call.in.keys.null \/ call.in.values.null
        THEN call.result = Ok(None)
        ELSE /\ call.result.val.some
             /\ PairsOf(call.result.val.val) =
                    {<<KeyAt(call.in, i), ValueAt(call.in, i)>> : i \in ValidIdx(call.in)}

\* C9, amended: null keys or values give "no mapping"; otherwise the mapping
\* has exactly the keys that decode at an index whose value decodes too, and
\* maps each to the value at the last such index.
C9_LastValidPairPerKey ==
    (call.op = "rust_map_from_c_arrays" /\ ~crashed) =>
        IF call.in.keys.null \/ call.in.values.null
        THEN call.result = Ok(None)
        ELSE /\ call.result.val.some
             /\ LET m == call.result.val.val
                    V == ValidIdx(call.in)
                IN  /\ DOMAIN m = {KeyAt(call.in, i) : i \in V}
                    /\ \A i \in V :
                         (\A j \in V : j > i => KeyAt(call.in, j) # KeyAt(call.in, i))
                             => m[KeyAt(call.in, i)] = ValueAt(call.in, i)

C9_Witness ==
    /\ call.op = "rust_map_from_c_arrays"
    /\ ~crashed
    /\ call.in.len = 2
    /\ ~call.in.keys.null /\ ~call.in.values.null
    /\ ValidIdx(call.in) = {1, 2}
    /\ KeyAt(call.in, 1) = KeyAt(call.in, 2)
    /\ ValueAt(call.in, 1) # ValueAt(call.in, 2)

\* A request that carries a length above isize::MAX.
Oversize(c) ==
    /\ c.op \in Requests
    /\ \/ c.in.hdr.len > IsizeMax
       \/ c.op = "http_post" /\ c.in.json.len > IsizeMax
       \/ c.op = "http_upload" /\
             \/ c.in.parts.len > IsizeMax
             \/ \E i \in 1..Len(c.in.parts.at) : c.in.parts.at[i].data_len > IsizeMax

\* C10: a length above isize::MAX is rejected before the pointer it comes
\* with is read: the call given a Live client returns, it does not fault.
C10_OversizeLengthRejected ==
    (Oversize(call) /\ call.arg # Null) => ~crashed

(***************************************************************************)
(* Caller threads.  Each thread calls a request entry point on the same    *)
(* Live client handle; the steps of one call are those of lines 45-61 of   *)
(* net.rs (get; post, download and upload have the same steps): decode the *)
(* arguments, dereference RUNTIME, block_on the collaborator's operation,  *)
(* match on its result.                                                    *)
(***************************************************************************)
\* Number of caller threads.
MaxThreads == 2
Threads == 1..MaxThreads

\* The client handle the threads share: the first box init handed out.
SharedClient == box_into_raw_new([x \in {} |-> Block("none", [bytes |-> <<>>])],
                                 "client", [ca_path |-> None])

NoOp == [state |-> "none", rt |-> 0, result |-> NoResult]
ThreadInit == [pc |-> "idle", op |-> NoOp, subs |-> 0, ret |-> Null]

InitThreads ==
    /\ heap = SharedClient.heap
    /\ leaked = {}
    /\ crashed = FALSE
    /\ call = NoCall
    /\ runtime = RuntimeInit
    /\ threads = [t \in Threads |-> ThreadInit]
    /\ NoScript

\* The call begins: the arguments are decoded (lines 45-52).
Enter(t) ==
    /\ ~crashed
    /\ threads[t].pc = "idle"
    /\ threads' = [threads EXCEPT ![t] = [ThreadInit EXCEPT !.pc = "entered"]]
    /\ UNCHANGED <<heap, leaked, crashed, call, runtime, luaVars>>

\* (mutant) "create on first use" without synchronization: a thread that
\* finds the runtime not ready constructs one.
Lazy_may_init_racy(rt) == rt.state # "ready"

\* once_cell::sync::Lazy: the thread that finds the cell empty runs the
\* initializer; while it runs, the others wait.
Lazy_may_init(rt) == rt.state = "uninit"

\* The dereference of RUNTIME (Lazy::force).
Lazy_force(t) ==
    /\ ~crashed
    /\ threads[t].pc = "entered"
    /\ \/ /\ runtime.state = "ready"
          /\ threads' = [threads EXCEPT ![t].pc = "submit"]
          /\ UNCHANGED runtime
       \/ /\ runtime.state # "ready"
          /\ Lazy_may_init(runtime)
          /\ runtime' = [runtime EXCEPT !.state = "running", !.by = t]
          /\ threads' = [threads EXCEPT ![t].pc = "init"]
    /\ UNCHANGED <<heap, leaked, crashed, call, luaVars>>

\* The initializer: Runtime::new().expect(..).  Failure panics, and the
\* panic inside the extern "C" function aborts the process.
Runtime_new(t) ==
    /\ ~crashed
    /\ threads[t].pc = "init"
    /\ \/ /\ runtime' = [state |-> "ready", by |-> t, built |-> runtime.built + 1]
          /\ threads' = [threads EXCEPT ![t].pc = "submit"]
          /\ UNCHANGED crashed
       \/ /\ crashed' = TRUE
          /\ UNCHANGED <<runtime, threads>>
    /\ UNCHANGED <<heap, leaked, call, luaVars>>

\* RUNTIME.block_on(async { client.get(..).await }): the operation is
\* submitted to the runtime instance the thread dereferenced.
block_on_submit(t) ==
    /\ ~crashed
    /\ threads[t].pc = "submit"
    /\ threads' = [threads EXCEPT ![t].pc = "blocked",
                                  ![t].op = [state |-> "pending", rt |-> runtime.built,
                                             result |-> NoResult],
                                  ![t].subs = @ + 1]
    /\ UNCHANGED <<heap, leaked, crashed, call, runtime, luaVars>>

\* Completed operations whose response is not boxed yet.
Unboxed == {u \in Threads : /\ threads[u].pc = "blocked"
                            /\ threads[u].op.state = "done"
                            /\ threads[u].op.result.tag = "Ok"}

\* The runtime's workers finish the operation of thread t, in any order
\* among the pending operations: the collaborator yields its result.
Complete(t) ==
    /\ ~crashed
    /\ threads[t].op.state = "pending"
    /\ \E result \in Results :
         /\ result.tag = "Ok" => Cardinality(FreeAddrs(heap)) > Cardinality(Unboxed)
         /\ threads' = [threads EXCEPT ![t].op.state = "done", ![t].op.result = result]
    /\ UNCHANGED <<heap, leaked, crashed, call, runtime, luaVars>>

\* (mutant) the operation is spawned, not waited for.
spawn_ready(op) == TRUE

\* block_on returns when the future it drives has its output.
block_on_ready(op) == op.state = "done"

\* block_on returns the result of the thread's own operation, and the match
\* boxes the response or returns null (lines 58-61).
block_on_return(t) ==
    /\ ~crashed
    /\ threads[t].pc = "blocked"
    /\ block_on_ready(threads[t].op)
    /\ LET m == match_result(heap, threads[t].op.result)
       IN  /\ heap' = m.heap
           /\ threads' = [threads EXCEPT ![t].pc = "returned", ![t].ret = m.ptr]
    /\ UNCHANGED <<leaked, crashed, call, runtime, luaVars>>

\* The caller thread has its result and may call again.
CallerContinues(t) ==
    /\ ~crashed
    /\ threads[t].pc = "returned"
    /\ threads' = [threads EXCEPT ![t].pc = "idle"]
    /\ UNCHANGED <<heap, leaked, crashed, call, runtime, luaVars>>

NextThreads ==
    \/ \E t \in Threads : Enter(t)
    \/ \E t \in Threads : Lazy_force(t)
    \/ \E t \in Threads : Runtime_new(t)
    \/ \E t \in Threads : block_on_submit(t)
    \/ \E t \in Threads : Complete(t)
    \/ \E t \in Threads : block_on_return(t)
    \/ \E t \in Threads : CallerContinues(t)

SpecThreads == InitThreads /\ [][NextThreads]_vars

(***************************************************************************)
(* Properties of concurrent calls.                                         *)
(***************************************************************************)
\* C11: under every interleaving the shared runtime is constructed at most
\* once, every operation is submitted to that one instance, and once
\* constructed the runtime is never shut down or replaced.
C11_OneRuntime ==
    [][/\ runtime'.built <= 1
       /\ \A t \in Threads :
            threads'[t].op.state # "none" => threads'[t].op.rt = 1
       /\ runtime.state = "ready" => runtime' = runtime]_vars

C11_Witness ==
    /\ runtime.state = "ready"
    /\ \A t \in Threads : threads[t].op.state = "pending"

\* C12: a call that has returned submitted exactly one operation, and that
\* operation has completed or failed: no call returns while its operation
\* is pending, and a handle returned holds the finished operation's response.
C12_ReturnsAfterCompletion ==
    \A t \in Threads :
        threads[t].pc = "returned" =>
            /\ threads[t].subs = 1
            /\ threads[t].op.state = "done"
            /\ threads[t].ret # Null =>
                   /\ threads[t].op.result.tag = "Ok"
                   /\ heap[threads[t].ret] = Block("response", threads[t].op.result.val)

C12_Witness ==
    \E t, u \in Threads :
        /\ threads[t].pc = "returned"
        /\ threads[t].ret # Null
        /\ threads[u].pc = "blocked"
        /\ threads[u].op.state = "pending"

\* The threads whose call returns in this step.
Returning == {t \in Threads : threads[t].pc = "blocked" /\ threads'[t].pc = "returned"}

\* C13: no step of a request call changes the client handle; a call that
\* returns receives the outcome of its own operation (null for a failure, a
\* box holding its own response otherwise), and the box is new: distinct from
\* every Live handle, those of the other threads included.
C13_ConcurrentCallsIndependent ==
    [][/\ SharedClient.ptr \in DOMAIN heap'
       /\ heap'[SharedClient.ptr] = heap[SharedClient.ptr]
       /\ \A t \in Returning :
            IF threads[t].op.result.tag = "Ok"
            THEN /\ threads'[t].ret \in Addr \ DOMAIN heap
                 /\ heap'[threads'[t].ret] = Block("response", threads[t].op.result.val)
                 /\ \A a \in DOMAIN heap : heap'[a] = heap[a]
            ELSE threads'[t].ret = Null /\ heap' = heap]_vars

C13_Witness ==
    \E t, u \in Threads :
        /\ t < u
        /\ threads[t].pc = "returned" /\ threads[u].pc = "returned"
        /\ threads[t].ret # Null /\ threads[u].ret # Null
        /\ threads[t].ret > threads[u].ret
        /\ threads[t].op.result # threads[u].op.result

(***************************************************************************)
(* Optional parameters.                                                    *)
(***************************************************************************)
\* Every length of request c is within the array it comes with, and the part
\* arrays are given.
WithinArrays(c) ==
    /\ c.in.hdr.keys.null \/ c.in.hdr.values.null
           \/ (c.in.hdr.len <= Len(c.in.hdr.keys.at) /\ c.in.hdr.len <= Len(c.in.hdr.values.at))
    /\ c.op = "http_post" =>
           \/ c.in.json.keys.null \/ c.in.json.values.null
           \/ (c.in.json.len <= Len(c.in.json.keys.at)
                  /\ c.in.json.len <= Len(c.in.json.values.at))
    /\ c.op = "http_upload" =>
           /\ ~c.in.parts.null
           /\ c.in.parts.len <= Len(c.in.parts.at)
           /\ \A i \in 1..Len(c.in.parts.at) :
                c.in.parts.at[i].data_len <= Len(c.in.parts.at[i].data)

\* C14: a null pointer for an optional parameter (body, part MIME type, part
\* file name, trust-root path) decodes as absent and does not make the call
\* fail: a request on a Live client whose lengths are within their arrays is
\* submitted, with no value in the field whose pointer is null and a value in
\* the field whose pointer is not; init with a null path fails only when the
\* constructor does, and the client it builds has no trust-root path.
C14_NullOptionalIsAbsent ==
    /\ (call.op \in Requests /\ call.arg # Null /\ WithinArrays(call)) =>
           /\ ~crashed
           /\ call.sub.sent
           /\ call.op \in {"http_get", "http_post"} =>
                  (call.in.body = Null <=> ~call.sub.body.some)
           /\ call.op = "http_upload" =>
                  /\ Len(call.sub.parts) = call.in.parts.len
                  /\ \A i \in 1..Len(call.sub.parts) :
                       /\ call.in.parts.at[i].mime = Null <=> ~call.sub.parts[i].mime.some
                       /\ call.in.parts.at[i].filename = Null
                              <=> ~call.sub.parts[i].filename.some
    /\ (call.op = "http_client_init" /\ call.in.ca_cert_path = Null) =>
           IF crashed THEN call.result.tag = "Err"
           ELSE /\ call.ret \in LiveOf(heap, "client")
                /\ ~heap[call.ret].val.ca_path.some

C14_Witness ==
    /\ call.op = "http_upload"
    /\ call.arg # Null
    /\ call.sub.sent
    /\ Len(call.sub.parts) = 1
    /\ call.in.parts.at[1].mime = Null
    /\ call.in.parts.at[1].filename = Null
    /\ ~call.sub.parts[1].mime.some

\* C15: rust_to_cstr returns null exactly when the text holds a 0 byte, and
\* otherwise the address of a newly allocated string, the only allocation it
\* makes; cstr_to_rust of a null pointer is None; and decoding an encoded
\* text without a 0 byte gives the text back.
C15_TextMarshaling ==
    /\ call.op \in {"rust_to_cstr", "cstr_to_rust"} =>
           IF NoNul(call.in.s)
           THEN /\ call.ret \in LiveOf(heap, "cstr")
                /\ DOMAIN heap = {call.ret}
           ELSE call.ret = Null /\ DOMAIN heap = {}
    /\ call.op = "cstr_to_rust" =>
           call.result = Ok(IF NoNul(call.in.s) THEN Some(call.in.s) ELSE None)

C15_Witness ==
    /\ call.op = "cstr_to_rust"
    /\ call.in.s = <<97>>
    /\ call.result = Ok(Some(<<97>>))
    /\ call.ret # Null

\* C16: rust_map_to_c_arrays with three non-null output pointers writes
\* count = the number of entries of the map and, at every index below count,
\* a key string and a value string that are one entry of the map, every entry
\* at exactly one index, every string Live and the caller's; with a null
\* output pointer it writes nothing and allocates nothing.
C16_EncodeMapping ==
    call.op = "rust_map_to_c_arrays" =>
        IF call.in.outs.keys_null \/ call.in.outs.values_null \/ call.in.outs.count_null
        THEN call.out = OutInit /\ DOMAIN heap = {}
        ELSE /\ call.out.count = Cardinality(DOMAIN call.in.map)
             /\ Len(call.out.keys) = call.out.count
             /\ Len(call.out.values) = call.out.count
             /\ \A i \in 1..call.out.count :
                  /\ call.out.keys[i] \in LiveOf(heap, "cstr")
                  /\ call.out.values[i] \in LiveOf(heap, "cstr")
                  /\ TextAt(heap, call.out.keys[i]) \in DOMAIN call.in.map
                  /\ TextAt(heap, call.out.values[i])
                         = call.in.map[TextAt(heap, call.out.keys[i])]
                  /\ \A j \in 1..call.out.count :
                       TextAt(heap, call.out.keys[j]) = TextAt(heap, call.out.keys[i])
                           => j = i

(***************************************************************************)
(* The timer API of the scripting bridge (core/lua.rs): addTimer,          *)
(* pollTimers and removeTimer, called by a Lua script.  The Lua state runs *)
(* on one thread; lua.stack is its call stack, innermost frame last.       *)
(***************************************************************************)
\* Largest number of addTimer calls.
MaxTimers == 2
\* Largest value of the clock.
MaxTime == 1

\* The global functions of the script, by what their body does: "tick"
\* returns, "boom" raises an error, "again" calls the timer API.  "gone" is a
\* name no global function has.
Globals == [tick |-> "return", boom |-> "error", again |-> "reenter"]
CallbackNames == DOMAIN Globals \cup {"gone"}
\* The delays a script passes: Duration::from_secs_f64 panics on a negative
\* one.
Delays == {-1, 0, 1}

PollFrame(expired) == [fn |-> "pollTimers", expired |-> expired, i |-> 1, name |-> "", id |-> 0]
CallbackFrame(id, name) == [fn |-> "callback", expired |-> <<>>, i |-> 0, name |-> name, id |-> id]
Top == lua.stack[Len(lua.stack)]
Pop(stack, n) == SubSeq(stack, 1, Len(stack) - n)

InitTimers ==
    /\ heap = [x \in {} |-> Block("none", [bytes |-> <<>>])]
    /\ leaked = {}
    /\ crashed = FALSE
    /\ call = NoCall
    /\ NoThreads
    /\ NoScript

\* The script is at a point where it can call the timer API: at top level,
\* or inside a callback whose body calls it.
ScriptCalls ==
    /\ ~crashed
    /\ ~lua.hung
    /\ \/ lua.stack = <<>>
       \/ /\ lua.stack # <<>>
          /\ Top.fn = "callback"
          /\ Top.name \in DOMAIN Globals
          /\ Globals[Top.name] = "reenter"

\* Mutex::lock by the thread that already holds the lock: it does not return
\* (it blocks forever or panics).
Relock ==
    /\ \/ lua' = [lua EXCEPT !.hung = TRUE] /\ UNCHANGED crashed
       \/ crashed' = TRUE /\ UNCHANGED lua
    /\ UNCHANGED <<timers, now, trace>>

\* Lines 51-56: the timer state after a registration at time t.
addTimer_state(state, delay, callback_name, t) ==
    [next_id |-> state.next_id + 1,
     active_timers |-> Insert(state.active_timers, state.next_id,
                              [end_time |-> t + delay, callback |-> callback_name])]

\* addTimer({delay, callback_name}): the lock is taken and released inside
\* the call.  With a negative delay the id is consumed and the call panics.
addTimer ==
    /\ ScriptCalls
    /\ timers.data.next_id <= MaxTimers
    /\ \E delay \in Delays, callback_name \in CallbackNames :
         IF timers.locked THEN Relock
         ELSE IF delay < 0
              THEN /\ timers' = [timers EXCEPT !.data.next_id = @ + 1]
                   /\ crashed' = TRUE
                   /\ UNCHANGED <<lua, now, trace>>
              ELSE /\ timers' = [timers EXCEPT
                                    !.data = addTimer_state(@, delay, callback_name, now)]
                   /\ trace' = [trace EXCEPT
                                   !.issued = @ \cup {timers.data.next_id},
                                   !.invoked = Insert(@, timers.data.next_id, 0)]
                   /\ UNCHANGED <<lua, now, crashed>>
    /\ UNCHANGED <<heap, leaked, call, threadVars>>

\* (mutant) the expired timers are collected but stay active.
retain_keeps_expired(active_timers, t) == active_timers

\* Lines 68-75: active_timers.retain(..) keeps the timers that end after t.
retain(active_timers, t) ==
    [id \in {x \in DOMAIN active_timers : active_timers[x].end_time > t}
        |-> active_timers[id]]

\* The timers retain's closure pushes to expired.
expired_ids(active_timers, t) ==
    {x \in DOMAIN active_timers : active_timers[x].end_time <= t}

\* pollTimers, lines 64-75: the lock is taken, the expired timers are moved
\* out of active_timers into expired, in the map's enumeration order.
pollTimers ==
    /\ ScriptCalls
    /\ IF timers.locked THEN Relock
       ELSE /\ \E ord \in Orders(expired_ids(timers.data.active_timers, now)) :
                 lua' = [lua EXCEPT !.stack = Append(@,
                            PollFrame([k \in 1..Len(ord) |->
                                <<ord[k], timers.data.active_timers[ord[k]].callback>>]))]
            /\ timers' = [locked |-> TRUE,
                          data |-> [timers.data EXCEPT
                                       !.active_timers = retain(@, now)]]
            /\ UNCHANGED <<now, trace, crashed>>
    /\ UNCHANGED <<heap, leaked, call, threadVars>>

\* pollTimers is in its loop (lines 78-81), about to handle expired[i].
InPollLoop ==
    /\ ~crashed
    /\ ~lua.hung
    /\ lua.stack # <<>>
    /\ Top.fn = "pollTimers"

\* Line 79-80: the function is looked up by name and called.
poll_call ==
    /\ InPollLoop
    /\ Top.i <= Len(Top.expired)
    /\ Top.expired[Top.i][2] \in DOMAIN Globals
    /\ lua' = [lua EXCEPT !.stack =
                  Append([@ EXCEPT ![Len(@)].i = @ + 1],
                         CallbackFrame(Top.expired[Top.i][1], Top.expired[Top.i][2]))]
    /\ trace' = [trace EXCEPT !.invoked[Top.expired[Top.i][1]] = @ + 1]
    /\ UNCHANGED <<heap, leaked, crashed, call, threadVars, timers, now>>

\* Line 79: no global function has the name: "?" returns the error, and the
\* lock guard is dropped with the rest of expired.
poll_lookup_fails ==
    /\ InPollLoop
    /\ Top.i <= Len(Top.expired)
    /\ Top.expired[Top.i][2] \notin DOMAIN Globals
    /\ lua' = [lua EXCEPT !.stack = Pop(@, 1)]
    /\ timers' = [timers EXCEPT !.locked = FALSE]
    /\ UNCHANGED <<heap, leaked, crashed, call, threadVars, now, trace>>

\* The callback returns to the loop.
callback_returns ==
    /\ ~crashed
    /\ ~lua.hung
    /\ lua.stack # <<>>
    /\ Top.fn = "callback"
    /\ Globals[Top.name] = "return"
    /\ lua' = [lua EXCEPT !.stack = Pop(@, 1)]
    /\ UNCHANGED <<heap, leaked, crashed, call, threadVars, timers, now, trace>>

\* Line 80: the callback raises an error: "?" returns it from pollTimers.
callback_fails ==
    /\ ~crashed
    /\ ~lua.hung
    /\ lua.stack # <<>>
    /\ Top.fn = "callback"
    /\ Globals[Top.name] = "error"
    /\ lua' = [lua EXCEPT !.stack = Pop(@, 2)]
    /\ timers' = [timers EXCEPT !.locked = FALSE]
    /\ UNCHANGED <<heap, leaked, crashed, call, threadVars, now, trace>>

\* Line 82: the loop is over, Ok(()) is returned and the guard dropped.
poll_done ==
    /\ InPollLoop
    /\ Top.i > Len(Top.expired)
    /\ lua' = [lua EXCEPT !.stack = Pop(@, 1)]
    /\ timers' = [timers EXCEPT !.locked = FALSE]
    /\ UNCHANGED <<heap, leaked, crashed, call, threadVars, now, trace>>

\* Line 89: active_timers.remove(&handle.0)
remove(active_timers, id) ==
    [x \in DOMAIN active_timers \ {id} |-> active_timers[x]]

\* removeTimer(handle), with a handle some addTimer returned.
removeTimer ==
    /\ ScriptCalls
    /\ \E id \in trace.issued :
         IF timers.locked THEN Relock
         ELSE /\ timers' = [timers EXCEPT !.data.active_timers = remove(@, id)]
              /\ trace' = [trace EXCEPT !.cancelled = @ \cup {id}]
              /\ UNCHANGED <<lua, now, crashed>>
    /\ UNCHANGED <<heap, leaked, call, threadVars>>

\* Instant::now() advances between two calls of the script.
Tick ==
    /\ ~crashed
    /\ ~lua.hung
    /\ lua.stack = <<>>
    /\ now < MaxTime
    /\ now' = now + 1
    /\ UNCHANGED <<heap, leaked, crashed, call, threadVars, timers, lua, trace>>

NextTimers ==
    \/ addTimer
    \/ pollTimers
    \/ poll_call
    \/ poll_lookup_fails
    \/ callback_returns
    \/ callback_fails
    \/ poll_done
    \/ removeTimer
    \/ Tick

SpecTimers == InitTimers /\ [][NextTimers]_vars

(***************************************************************************)
(* Properties of the timer API.                                            *)
(***************************************************************************)
\* This step returns from a pollTimers call (with Ok or with an error).
PollReturns ==
    /\ lua.stack # <<>>
    /\ ~crashed' /\ ~lua'.hung
    /\ \/ Top.fn = "pollTimers" /\ Len(lua'.stack) = Len(lua.stack) - 1
       \/ Top.fn = "callback" /\ Len(lua'.stack) = Len(lua.stack) - 2
\* The frame of the pollTimers call that returns.
ReturningPoll ==
    IF Top.fn = "pollTimers" THEN Top ELSE lua.stack[Len(lua.stack) - 1]

\* C17: when a pollTimers call returns, every timer that was active with an
\* end time at or before the call's clock reading and whose callback names a
\* function of the script has had that function called exactly once and is
\* not active any more; the timers still active have not been invoked.
C17_PollInvokesEveryExpired ==
    [][PollReturns =>
          /\ \A k \in 1..Len(ReturningPoll.expired) :
               ReturningPoll.expired[k][2] \in DOMAIN Globals =>
                   /\ trace'.invoked[ReturningPoll.expired[k][1]] = 1
                   /\ ReturningPoll.expired[k][1] \notin DOMAIN timers'.data.active_timers
          /\ \A id \in DOMAIN timers'.data.active_timers :
               /\ timers'.data.active_timers[id].end_time > now
               /\ trace'.invoked[id] = 0]_vars

\* The largest id issued so far (0 when none was).
MaxIssued == IF trace.issued = {} THEN 0
             ELSE CHOOSE x \in trace.issued : \A y \in trace.issued : y <= x

\* C18: an id returned by addTimer is larger than every id returned before
\* (so never reused, also after removal or expiry); every active timer's id
\* is below next_id; no timer is invoked more than once; and a timer
\* cancelled by removeTimer before it fired is never invoked afterwards.
C18_TimerIds ==
    [][/\ \A id \in trace'.issued \ trace.issued :
            /\ id > MaxIssued
            /\ id < timers'.data.next_id
       /\ timers'.data.next_id >= timers.data.next_id
       /\ \A id \in DOMAIN timers'.data.active_timers : id < timers'.data.next_id
       /\ \A id \in trace'.issued : trace'.invoked[id] <= 1
       /\ \A id \in trace.cancelled : trace'.invoked[id] = trace.invoked[id]]_vars

C18_Witness ==
    /\ trace.issued = {1, 2}
    /\ trace.cancelled = {2}
    /\ trace.invoked[1] = 1
    /\ trace.invoked[2] = 0
    /\ timers.data.next_id = 3
    /\ timers.data.active_timers = <<>>
    /\ lua.stack = <<>>

\* C19: pollTimers does not hold the timer-state lock while a callback runs,
\* and no call of addTimer, removeTimer or pollTimers, made from a callback or
\* not, blocks forever: pollTimers terminates with the lock released.
C19_PollReleasesLock ==
    /\ ~lua.hung
    /\ (lua.stack # <<>> /\ Top.fn = "callback") => ~timers.locked
    /\ lua.stack = <<>> => ~timers.locked

\* C20: http_parse_rsp_headers on a Live response handle, with non-null
\* outputs, reports every header: the count written is the number of entries
\* of the response's header multimap, and every (name, value) entry is among
\* the pairs written, also when a name occurs more than once.
C20_EveryHeaderReported ==
    (/\ call.op = "http_parse_rsp_headers"
     /\ call.arg # Null
     /\ ~call.in.keys_null /\ ~call.in.values_null /\ ~call.in.count_null) =>
        LET r == heap[call.arg].val
        IN  /\ call.out.count = Len(r.headers)
            /\ \A i \in 1..Len(r.headers) :
                 <<r.headers[i][1], unwrap_or_default(to_str(r.headers[i][2]))>>
                     \in PairsWritten(heap, call.out)

====
